---- MODULE Spec2Model ----
(***************************************************************************)
(* Clip synchronisation engine of clip-papy (src/index.js, and the earlier *)
(* "simple" revision of the same file kept in src/unnamed/part_000).       *)
(*                                                                         *)
(* One step of the model is one run of JavaScript between two suspension   *)
(* points: the continuation that receives the answer of the pending fetch, *)
(* runs the synchronous code that follows and issues the next fetch.  The  *)
(* field pc of an invocation names the await it is suspended at.           *)
(***************************************************************************)
EXTENDS Integers, Sequences, FiniteSets, TLC

\* ------------------------------------------------------------- bounds
NumClips == 1      \* clip ids the upstream may return
MaxViews == 2      \* view_count values a payload may carry
MaxPages == 2      \* pages of the upstream collection seen by one backfill
MaxPageLen == 2    \* clips in one response

ClipIds == 1..NumClips
Views == 1..MaxViews

\* Invocations of updateClips and of checkRecentClips that may be in progress
\* at the same time: two of each, so that every pair of them can overlap.
Upd == {1, 2}
Chk == {1, 2}

\* A clip as the upstream returns it and as the table stores it.  The columns
\* other than id and view_count are copied unchanged and are left out.
Payload == [id : ClipIds, view_count : Views]

SeqsUpTo(S, n) == UNION {[1..k -> S] : k \in 0..n}

\* data.data of a clip listing: the ids of its clips, in order (an id may come
\* twice), and the view_count the upstream reports for each id.  A view_count
\* is drawn when the payload is first read.
PageIds == SeqsUpTo(ClipIds, MaxPageLen)
ViewCounts(ids) == [{ids[i] : i \in 1..Len(ids)} -> Views]
PayloadsOf(ids, vc) == [i \in 1..Len(ids) |-> [id |-> ids[i], view_count |-> vc[ids[i]]]]

NullCursor == 0
NoClip == 0

VARIABLES
    variant,         \* "windowed" (src/index.js) or "simple" (src/unnamed/part_000)
    accessToken,     \* "null", "valid" or "stale" (a token the upstream answers 401 to)
    isUpdatingFull,  \* the full-backfill mutex
    clips,           \* the clips table: a set of rows
    notified,        \* per clip id, the number of sendClipToDiscord invocations
    started,         \* the app.listen callback has run
    upd,             \* updateClips invocations
    chk,             \* checkRecentClips invocations (and the checkStatus that awaits them)
    sync,            \* the syncClipById invocation
    outcome,         \* how the invocation that ended last ended: "ok" (it returned)
                     \* or the error it threw; "none" before any has ended
    live,            \* the broadcaster is streaming (upstream)
    isLive,          \* cached liveness: "false", "true" or "undefined"
    checkInterval,   \* the cadence of the timer checkInterval refers to, or "null"
    timers,          \* the number of running incremental-check timers of each cadence
    probeCron        \* the */5 checkStatus cron is scheduled

engineVars == <<variant, accessToken, isUpdatingFull, clips, notified, started, upd, chk, sync, outcome>>
schedVars == <<live, isLive, checkInterval, timers, probeCron>>
vars == <<variant, accessToken, isUpdatingFull, clips, notified, started, upd, chk, sync, outcome,
          live, isLive, checkInterval, timers, probeCron>>

\* ------------------------------------------------------------- clip store

\* SELECT id FROM clips WHERE id = ?
Exists(tbl, id) == \E r \in tbl : r.id = id

\* SELECT COUNT(*) FROM clips
Count(tbl) == Cardinality(tbl)

InsertOrIgnore_NoKey(tbl, c) ==
    [clips |-> tbl \cup {c}, changes |-> 1]

InsertOrIgnore_Overwrite(tbl, c) ==
    [clips |-> {r \in tbl : r.id # c.id} \cup {c},
     changes |-> IF \E r \in tbl : r.id = c.id THEN 0 ELSE 1]

\* INSERT OR IGNORE INTO clips ... on a table whose id is PRIMARY KEY:
\* the new table and result.changes
InsertOrIgnore(tbl, c) ==
    IF Exists(tbl, c.id)
    THEN [clips |-> tbl, changes |-> 0]
    ELSE [clips |-> tbl \cup {c}, changes |-> 1]

\* INSERT OR REPLACE INTO clips ...
InsertOrReplace(tbl, c) == {r \in tbl : r.id # c.id} \cup {c}

\* ------------------------------------------------------------- upstream

\* The upstream answers 401 to a request unless the cached token is valid.
Unauthorized == accessToken # "valid"

\* ------------------------------------------------------------- records

\* An invocation that is not running
IdleUpd == [pc |-> "idle", cursor |-> NullCursor, pages |-> 0, caller |-> "none"]
IdleChk == [pc |-> "idle", pending |-> <<>>, probe |-> FALSE, wasLive |-> "false", bid |-> FALSE,
            failed |-> FALSE, missed |-> FALSE]
IdleSync == [pc |-> "idle", id |-> NoClip, retried |-> FALSE]

\* data.access_token of the provider's answer: present or absent
TokenAnswers == BOOLEAN

\* ------------------------------------------------------------- updateClips

\* isUpdatingFull = true (the simple revision has no mutex)
MutexOnEntry == IF variant = "windowed" THEN TRUE ELSE isUpdatingFull

MutexAfter_NoFinally(r) ==
    IF variant = "windowed" /\ r = "ok" THEN FALSE ELSE isUpdatingFull

\* finally { isUpdatingFull = false }, whatever the result r
MutexAfter(r) == IF variant = "windowed" THEN FALSE ELSE isUpdatingFull

\* updateClips returns (r = "ok") or throws r
UpdEnd(u, r) ==
    /\ upd' = [upd EXCEPT ![u] = IdleUpd]
    /\ isUpdatingFull' = MutexAfter(r)
    /\ outcome' = r

\* updateClips suspends at its next await
UpdAwait(u, c) ==
    /\ upd' = [upd EXCEPT ![u] = c]
    /\ UNCHANGED <<isUpdatingFull, outcome>>

\* for (const c of data.data || []) insertStmt.run(...)
RECURSIVE InsertPage(_, _)
InsertPage(tbl, data) ==
    IF data = <<>> THEN tbl
    ELSE InsertPage(InsertOrIgnore(tbl, Head(data)).clips, Tail(data))

\* data.pagination?.cursor of the page asked with `cursor`: the upstream's
\* cursors are numbered, the page after cursor k carries cursor k + 1
NextCursor(cursor, more) == IF more THEN cursor + 1 ELSE NullCursor

CursorAfter401_Advance(cursor) == cursor + 1

\* if (res.status === 401) { await getAccessToken(); continue; }
\* leaves cursor as it is
CursorAfter401(cursor) == cursor

\* while (cursor)
LoopAgain(cursor) == cursor # NullCursor

\* The synchronous start of updateClips, up to its first await; caller is the
\* callback that called it ("listen" or "cron").
updateClips(u, caller) ==
    /\ upd[u].pc = "idle"
    /\ isUpdatingFull' = MutexOnEntry
    /\ upd' = [upd EXCEPT ![u] =
                 [IdleUpd EXCEPT !.pc = IF accessToken = "null" THEN "token" ELSE "bid",
                                 !.caller = caller]]
    /\ UNCHANGED <<variant, accessToken, clips, notified, chk, sync, outcome>>
    /\ UNCHANGED schedVars

\* The promise of updateClips() has a rejection handler in the cron callback,
\* updateClips().catch(...), and none in the app.listen callback, whose own
\* promise nobody awaits.
Caught(caller) == caller = "cron"

\* app.listen(PORT, async () => { await updateClips(); })
Listen(u) ==
    /\ ~started
    /\ started' = TRUE
    /\ updateClips(u, "listen")

\* cron.schedule(fullUpdateSchedule, () => { updateClips().catch(...) })
CronFull(u) ==
    /\ updateClips(u, "cron")
    /\ UNCHANGED started

\* if (!accessToken) await getAccessToken(); then getBroadcasterId() is called
UpdTokenResp(u, ok) ==
    /\ upd[u].pc = "token"
    /\ IF ok
       THEN /\ accessToken' = "valid"
            /\ UpdAwait(u, [upd[u] EXCEPT !.pc = "bid"])
       ELSE /\ UpdEnd(u, "AuthError")
            /\ UNCHANGED accessToken
    /\ UNCHANGED <<variant, clips, notified, started, chk, sync>>
    /\ UNCHANGED schedVars

\* const broadcasterId = await getBroadcasterId();
\* if (!broadcasterId) throw new Error("Streamer introuvable");
\* getBroadcasterId reads data.data?.[0]?.id whatever the status: a 401 body
\* has no data, so it returns undefined.
UpdBidResp(u, found) ==
    /\ upd[u].pc = "bid"
    /\ IF ~Unauthorized /\ found
       THEN UpdAwait(u, [upd[u] EXCEPT !.pc = "page"])
       ELSE UpdEnd(u, "BroadcasterNotFound")
    /\ UNCHANGED <<variant, accessToken, clips, notified, started, chk, sync>>
    /\ UNCHANGED schedVars

NotifiedAfterPage_New(n, tbl, data) ==
    [c \in ClipIds |->
        IF ~Exists(tbl, c) /\ (\E i \in 1..Len(data) : data[i].id = c) THEN n[c] + 1 ELSE n[c]]

\* The sendClipToDiscord invocations after updateClips has gone through the
\* page data: its loop body is insertStmt.run and inserted++, nothing else
NotifiedAfterPage(n, tbl, data) == n

\* One answer to the page request of the do ... while (cursor) loop.
UpdPageResp(u, ids, vc, more) ==
    /\ upd[u].pc = "page"
    /\ more => upd[u].cursor + 1 < MaxPages
    /\ IF Unauthorized
       THEN /\ UpdAwait(u, [upd[u] EXCEPT !.pc = "refresh",
                                         !.cursor = CursorAfter401(upd[u].cursor)])
            /\ UNCHANGED <<clips, notified>>
       ELSE LET cursor == NextCursor(upd[u].cursor, more) IN
            /\ clips' = InsertPage(clips, PayloadsOf(ids, vc))
            /\ notified' = NotifiedAfterPage(notified, clips, PayloadsOf(ids, vc))
            /\ IF LoopAgain(cursor)
               THEN UpdAwait(u, [upd[u] EXCEPT !.cursor = cursor,
                                               !.pages = upd[u].pages + 1])
               ELSE UpdEnd(u, "ok")
    /\ UNCHANGED <<variant, accessToken, started, chk, sync>>
    /\ UNCHANGED schedVars

\* The answer to the getAccessToken of the 401 branch; `continue` then jumps
\* to the loop condition while (cursor).
UpdRefreshResp(u, ok) ==
    /\ upd[u].pc = "refresh"
    /\ IF ok
       THEN /\ accessToken' = "valid"
            /\ IF LoopAgain(upd[u].cursor)
               THEN UpdAwait(u, [upd[u] EXCEPT !.pc = "page"])
               ELSE UpdEnd(u, "ok")
       ELSE /\ UpdEnd(u, "AuthError")
            /\ UNCHANGED accessToken
    /\ UNCHANGED <<variant, clips, notified, started, chk, sync>>
    /\ UNCHANGED schedVars

\* The pending fetch of updateClips rejects (network error).
UpdNetErr(u) ==
    /\ upd[u].pc \in {"token", "bid", "page", "refresh"}
    /\ UpdEnd(u, "NetworkError")
    /\ UNCHANGED <<variant, accessToken, clips, notified, started, chk, sync>>
    /\ UNCHANGED schedVars

\* ------------------------------------------------------------- checkRecentClips

SkipForFullUpdate_Never == FALSE

\* if (isUpdatingFull) { ...; return; }   (windowed revision only)
SkipForFullUpdate == variant = "windowed" /\ isUpdatingFull

StoreIsEmpty_Never == FALSE

\* if (count.count === 0) { ...; return; }   (windowed revision only)
StoreIsEmpty == variant = "windowed" /\ Count(clips) = 0

\* The synchronous start of checkRecentClips with the cached token tok: where
\* it suspends first, or "return" when it returns before any await.
CheckEntry(tok) ==
    IF SkipForFullUpdate THEN "return"
    ELSE IF StoreIsEmpty THEN "return"
    ELSE IF tok = "null" THEN "token"
    ELSE "bid"

\* checkRecentClips returns (r = "ok") or throws r (the record keeps, until the
\* next call, whether a delivery of the call failed and whether an insert of
\* the call that followed a negative existence test reported no change); its
\* caller (the timer callback's .catch, or checkStatus's try/catch) ends with
\* it.  When the caller is checkStatus, startAdaptiveChecking's await
\* checkStatus() is over: cron.schedule("*/5 * * * *", checkStatus) has run
\* once one has ended.
ChkEndF(t, r, failed, missed) ==
    /\ chk' = [chk EXCEPT ![t] = [IdleChk EXCEPT !.failed = failed, !.missed = missed]]
    /\ outcome' = r
    /\ probeCron' = (probeCron \/ chk[t].probe)

ChkEnd(t, r) ==
    ChkEndF(t, r, chk[t].pc # "idle" /\ chk[t].failed, chk[t].pc # "idle" /\ chk[t].missed)

\* checkRecentClips suspends at its next await
ChkAwait(t, c) ==
    /\ chk' = [chk EXCEPT ![t] = c]
    /\ UNCHANGED <<outcome, probeCron>>

\* checkRecentClips() is called in invocation t, whose record is c
Enter(t, c, tok) ==
    IF CheckEntry(tok) = "return"
    THEN ChkEnd(t, "ok")
    ELSE ChkAwait(t, [c EXCEPT !.pc = CheckEntry(tok), !.pending = <<>>])

InsertIfNew_Window(tbl, c) ==
    IF Exists(tbl, c.id)
    THEN [clips |-> tbl, changes |-> 0]
    ELSE [clips |-> tbl \cup {c}, changes |-> IF variant = "windowed" THEN 0 ELSE 1]

InsertIfNew_Unchecked(tbl, c) ==
    [clips |-> InsertOrIgnore(tbl, c).clips, changes |-> 1]

InsertIfNew_Always(tbl, c) ==
    [clips |-> InsertOrReplace(tbl, c), changes |-> 1]

\* One iteration of the for loop up to the test of result.changes.  The
\* windowed revision asks existsStmt first and inserts only if the row is
\* absent; the simple revision always runs the insert.
InsertIfNew(tbl, c) ==
    IF variant = "windowed" /\ Exists(tbl, c.id)
    THEN [clips |-> tbl, changes |-> 0]
    ELSE InsertOrIgnore(tbl, c)

\* for (const c of data.data || []) { ... }, run to its next suspension: the
\* await of sendClipToDiscord(c) for the first clip whose insert reports a
\* change (notify is its id, pending the clips after it), or the loop's end
\* (notify is NoClip).  missed tells that the windowed revision has passed
\* if (result.changes > 0) with no change reported, after existsStmt.get had
\* found no row.
RECURSIVE CheckLoop(_, _)
CheckLoop(tbl, data) ==
    IF data = <<>>
    THEN [clips |-> tbl, pending |-> <<>>, notify |-> NoClip, missed |-> FALSE]
    ELSE LET r == InsertIfNew(tbl, Head(data)) IN
         IF r.changes > 0
         THEN [clips |-> r.clips, pending |-> Tail(data), notify |-> Head(data).id,
               missed |-> FALSE]
         ELSE [CheckLoop(r.clips, Tail(data)) EXCEPT
                  !.missed = @ \/ (variant = "windowed" /\ ~Exists(tbl, Head(data).id))]

\* The loop runs on for invocation t over the clips ids, whose payloads carry
\* the view counts vc; pending keeps the ids still to visit.  failed tells
\* that the delivery the loop was suspended at has failed.
RunLoop(t, ids, vc, failed) ==
    LET r == CheckLoop(clips, PayloadsOf(ids, vc)) IN
    /\ clips' = r.clips
    /\ IF r.notify # NoClip
       THEN /\ notified' = [notified EXCEPT ![r.notify] = @ + 1]
            /\ ChkAwait(t, [chk[t] EXCEPT !.pc = "notify",
                                          !.pending = [i \in 1..Len(r.pending) |-> r.pending[i].id],
                                          !.failed = @ \/ failed,
                                          !.missed = @ \/ r.missed])
       ELSE /\ ChkEndF(t, "ok", chk[t].failed \/ failed, chk[t].missed \/ r.missed)
            /\ UNCHANGED notified

\* checkRecentClips() called by the timer callback or by checkStatus
CheckBegin(t) ==
    /\ chk[t].pc = "idle"
    /\ Enter(t, IdleChk, accessToken)
    /\ UNCHANGED <<variant, accessToken, isUpdatingFull, clips, notified, started, upd, sync>>
    /\ UNCHANGED <<live, isLive, checkInterval, timers>>

\* if (!accessToken) await getAccessToken();
ChkTokenResp(t, ok) ==
    /\ chk[t].pc = "token"
    /\ IF ok
       THEN /\ accessToken' = "valid"
            /\ ChkAwait(t, [chk[t] EXCEPT !.pc = "bid"])
       ELSE /\ ChkEnd(t, "AuthError")
            /\ UNCHANGED accessToken
    /\ UNCHANGED <<variant, isUpdatingFull, clips, notified, started, upd, sync>>
    /\ UNCHANGED <<live, isLive, checkInterval, timers>>

\* const broadcasterId = await getBroadcasterId();
\* if (!broadcasterId) throw new Error("Streamer introuvable");
ChkBidResp(t, found) ==
    /\ chk[t].pc = "bid"
    /\ IF ~Unauthorized /\ found
       THEN ChkAwait(t, [chk[t] EXCEPT !.pc = "list"])
       ELSE ChkEnd(t, "BroadcasterNotFound")
    /\ UNCHANGED <<variant, accessToken, isUpdatingFull, clips, notified, started, upd, sync>>
    /\ UNCHANGED <<live, isLive, checkInterval, timers>>

\* The answer to the clip listing: 401 starts getAccessToken, anything else
\* enters the for loop.
ChkListResp(t, ids, vc) ==
    /\ chk[t].pc = "list"
    /\ IF Unauthorized
       THEN /\ ChkAwait(t, [chk[t] EXCEPT !.pc = "refresh"])
            /\ UNCHANGED <<clips, notified>>
       ELSE RunLoop(t, ids, vc, FALSE)
    /\ UNCHANGED <<variant, accessToken, isUpdatingFull, started, upd, sync>>
    /\ UNCHANGED <<live, isLive, checkInterval, timers>>

\* await getAccessToken(); return checkRecentClips();
ChkRefreshResp(t, ok) ==
    /\ chk[t].pc = "refresh"
    /\ IF ok
       THEN /\ accessToken' = "valid"
            /\ Enter(t, chk[t], "valid")
       ELSE /\ ChkEnd(t, "AuthError")
            /\ UNCHANGED accessToken
    /\ UNCHANGED <<variant, isUpdatingFull, clips, notified, started, upd, sync>>
    /\ UNCHANGED <<live, isLive, checkInterval, timers>>

AfterDelivery_Throw(delivered) == IF delivered THEN "continue" ELSE "throw"

\* sendClipToDiscord: try { await fetch(discordWebhookUrl, ...) } catch (err)
\* { console.error(...) }: it returns whether or not the delivery succeeded
AfterDelivery(delivered) == "continue"

\* await sendClipToDiscord(c) is over: the clip was delivered, or the delivery
\* failed.
ChkNotifyDone(t, vc, delivered) ==
    /\ chk[t].pc = "notify"
    /\ IF AfterDelivery(delivered) = "continue"
       THEN RunLoop(t, chk[t].pending, vc, ~delivered)
       ELSE /\ ChkEnd(t, "NetworkError")
            /\ UNCHANGED <<clips, notified>>
    /\ UNCHANGED <<variant, accessToken, isUpdatingFull, started, upd, sync>>
    /\ UNCHANGED <<live, isLive, checkInterval, timers>>

\* The pending fetch of checkRecentClips rejects (network error).
ChkNetErr(t) ==
    /\ chk[t].pc \in {"token", "bid", "list", "refresh"}
    /\ ChkEnd(t, "NetworkError")
    /\ UNCHANGED <<variant, accessToken, isUpdatingFull, clips, notified, started, upd, sync>>
    /\ UNCHANGED <<live, isLive, checkInterval, timers>>

\* ------------------------------------------------------------- syncClipById

\* syncClipById returns (r = "ok") or throws r
SyncEnd(r) ==
    /\ sync' = IdleSync
    /\ outcome' = r

\* syncClipById suspends at its next await
SyncAwait(c) ==
    /\ sync' = c
    /\ UNCHANGED outcome

\* GET/POST /api/sync-clip/:clipId calls syncClipById(clipId)
syncClipById(id) ==
    /\ sync.pc = "idle"
    /\ SyncAwait([pc |-> IF accessToken = "null" THEN "token" ELSE "clip",
                  id |-> id, retried |-> FALSE])
    /\ UNCHANGED <<variant, accessToken, isUpdatingFull, clips, notified, started, upd, chk>>
    /\ UNCHANGED schedVars

\* if (!accessToken) await getAccessToken();
SyncTokenResp(ok) ==
    /\ sync.pc = "token"
    /\ IF ok
       THEN /\ accessToken' = "valid"
            /\ SyncAwait([sync EXCEPT !.pc = "clip"])
       ELSE /\ SyncEnd("AuthError")
            /\ UNCHANGED accessToken
    /\ UNCHANGED <<variant, isUpdatingFull, clips, notified, started, upd, chk>>
    /\ UNCHANGED schedVars

ClipsAfterSync_Purge(tbl, found, c) ==
    IF found THEN InsertOrReplace(tbl, c) ELSE {r \in tbl : r.id # c.id}

\* The table after the answer to helix/clips?id=: the throw on an empty data
\* comes before insertStmt.run, so the table is written only if a clip came.
ClipsAfterSync(tbl, found, c) ==
    IF found THEN InsertOrReplace(tbl, c) ELSE tbl

\* The answer to helix/clips?id=: 401 starts getAccessToken; an empty data
\* throws "Clip non trouve"; otherwise data.data[0] replaces the row.
SyncClipResp(found, v) ==
    /\ sync.pc = "clip"
    /\ IF Unauthorized
       THEN /\ SyncAwait([sync EXCEPT !.pc = "refresh"])
            /\ UNCHANGED clips
       ELSE /\ clips' = ClipsAfterSync(clips, found, [id |-> sync.id, view_count |-> v])
            /\ SyncEnd(IF found THEN "ok" ELSE "ClipNotFound")
    /\ UNCHANGED <<variant, accessToken, isUpdatingFull, notified, started, upd, chk>>
    /\ UNCHANGED schedVars

\* await getAccessToken(); return syncClipById(clipId);
\* retried records that the request now in flight follows a refresh.
SyncRefreshResp(ok) ==
    /\ sync.pc = "refresh"
    /\ IF ok
       THEN /\ accessToken' = "valid"
            /\ SyncAwait([sync EXCEPT !.pc = "clip", !.retried = TRUE])
       ELSE /\ SyncEnd("AuthError")
            /\ UNCHANGED accessToken
    /\ UNCHANGED <<variant, isUpdatingFull, clips, notified, started, upd, chk>>
    /\ UNCHANGED schedVars

\* The pending fetch of syncClipById rejects (network error).
SyncNetErr ==
    /\ sync.pc \in {"token", "clip", "refresh"}
    /\ SyncEnd("NetworkError")
    /\ UNCHANGED <<variant, accessToken, isUpdatingFull, clips, notified, started, upd, chk>>
    /\ UNCHANGED schedVars

\* ------------------------------------------------------------- adaptive checking

\* isLive !== wasLive
LivenessChanged(now, wasLive) == now # wasLive

\* isLive ? "* * * * *" : "0 * * * *"  (undefined is falsy)
Schedule(now) == IF now = "true" THEN "minute" ELSE "hour"

TimersAfter_NoStop(now, wasLive) ==
    IF LivenessChanged(now, wasLive)
    THEN [timers EXCEPT ![Schedule(now)] = @ + 1]
    ELSE timers

\* if (checkInterval) checkInterval.stop(); checkInterval = cron.schedule(...)
TimersAfter(now, wasLive) ==
    IF LivenessChanged(now, wasLive)
    THEN LET stopped == IF checkInterval = "null" THEN timers
                        ELSE [timers EXCEPT ![checkInterval] = @ - 1] IN
         [stopped EXCEPT ![Schedule(now)] = @ + 1]
    ELSE timers

CheckIntervalAfter(now, wasLive) ==
    IF LivenessChanged(now, wasLive) THEN Schedule(now) ELSE checkInterval

\* data.data && data.data.length > 0 of the helix/streams answer: a 401 body
\* and the answer to user_id=undefined carry no data, so undefined comes back
StreamsAnswer(bid) ==
    IF Unauthorized \/ ~bid THEN "undefined"
    ELSE IF live THEN "true" ELSE "false"

\* The */5 cron calls checkStatus: const wasLive = isLive; then isStreamerLive()
\* runs to its first await.
checkStatus(t) ==
    /\ probeCron
    /\ chk[t].pc = "idle"
    /\ ChkAwait(t, [IdleChk EXCEPT !.probe = TRUE, !.wasLive = isLive,
                                   !.pc = IF accessToken = "null" THEN "ls_token" ELSE "ls_bid"])
    /\ UNCHANGED <<variant, accessToken, isUpdatingFull, clips, notified, started, upd, sync>>
    /\ UNCHANGED <<live, isLive, checkInterval, timers>>

\* isStreamerLive: if (!accessToken) await getAccessToken(); a throw is caught
\* by checkStatus, which logs it and returns.
LsTokenResp(t, ok) ==
    /\ chk[t].pc = "ls_token"
    /\ IF ok
       THEN /\ accessToken' = "valid"
            /\ ChkAwait(t, [chk[t] EXCEPT !.pc = "ls_bid"])
       ELSE /\ ChkEnd(t, "AuthError")
            /\ UNCHANGED accessToken
    /\ UNCHANGED <<variant, isUpdatingFull, clips, notified, started, upd, sync>>
    /\ UNCHANGED <<live, isLive, checkInterval, timers>>

\* isStreamerLive: const broadcasterId = await getBroadcasterId(); the id is
\* used unchecked in the helix/streams request.
LsBidResp(t, found) ==
    /\ chk[t].pc = "ls_bid"
    /\ ChkAwait(t, [chk[t] EXCEPT !.pc = "ls_streams", !.bid = ~Unauthorized /\ found])
    /\ UNCHANGED <<variant, accessToken, isUpdatingFull, clips, notified, started, upd, sync>>
    /\ UNCHANGED <<live, isLive, checkInterval, timers>>

ProbeRunsCheck_OnChange(now, wasLive) == LivenessChanged(now, wasLive)

\* await checkRecentClips() comes after the if (isLive !== wasLive) block, not
\* inside it
ProbeRunsCheck(now, wasLive) == TRUE

\* isLive = await isStreamerLive(); the timer is replaced if isLive !== wasLive;
\* then await checkRecentClips().
LsStreamsResp(t) ==
    LET now == StreamsAnswer(chk[t].bid) IN
    /\ chk[t].pc = "ls_streams"
    /\ isLive' = now
    /\ timers' = TimersAfter(now, chk[t].wasLive)
    /\ checkInterval' = CheckIntervalAfter(now, chk[t].wasLive)
    /\ IF ProbeRunsCheck(now, chk[t].wasLive)
       THEN Enter(t, [IdleChk EXCEPT !.probe = TRUE], accessToken)
       ELSE ChkEnd(t, "ok")
    /\ UNCHANGED <<variant, accessToken, isUpdatingFull, clips, notified, started, upd, sync>>
    /\ UNCHANGED live

\* The pending fetch of isStreamerLive rejects (network error).
LsNetErr(t) ==
    /\ chk[t].pc \in {"ls_token", "ls_bid", "ls_streams"}
    /\ ChkEnd(t, "NetworkError")
    /\ UNCHANGED <<variant, accessToken, isUpdatingFull, clips, notified, started, upd, sync>>
    /\ UNCHANGED <<live, isLive, checkInterval, timers>>

\* A running timer of the incremental check fires:
\* () => { checkRecentClips().catch(...) }
TimerFire(t, cadence) ==
    /\ timers[cadence] > 0
    /\ CheckBegin(t)

\* ------------------------------------------------------------- environment

\* The upstream stops accepting the cached token.
TokenExpires ==
    /\ accessToken = "valid"
    /\ accessToken' = "stale"
    /\ UNCHANGED <<variant, isUpdatingFull, clips, notified, started, upd, chk, sync, outcome>>
    /\ UNCHANGED schedVars

\* The broadcaster goes live or goes offline.
LiveChanges ==
    /\ live' = ~live
    /\ UNCHANGED engineVars
    /\ UNCHANGED <<isLive, checkInterval, timers, probeCron>>

\* The process ends and is started again: the module-level state is set anew
\* (let accessToken = null; let isUpdatingFull = false; let isLive = false;
\* let checkInterval = null), the clips table, a file, is kept.
Restart ==
    /\ accessToken' = "null"
    /\ isUpdatingFull' = FALSE
    /\ started' = FALSE
    /\ upd' = [u \in Upd |-> IdleUpd]
    /\ chk' = [t \in Chk |-> IdleChk]
    /\ sync' = IdleSync
    /\ outcome' = "none"
    /\ isLive' = "false"
    /\ checkInterval' = "null"
    /\ timers' = [minute |-> 0, hour |-> 0]
    /\ probeCron' = FALSE
    /\ UNCHANGED <<variant, clips, notified, live>>

\* ------------------------------------------------------------- specifications

\* The engine before any operation has begun: either revision, an empty table.
Init ==
    /\ variant \in {"windowed", "simple"}
    /\ accessToken = "null"
    /\ isUpdatingFull = FALSE
    /\ clips = {}
    /\ notified = [c \in ClipIds |-> 0]
    /\ started = FALSE
    /\ upd = [u \in Upd |-> IdleUpd]
    /\ chk = [t \in Chk |-> IdleChk]
    /\ sync = IdleSync
    /\ outcome = "none"
    /\ live = FALSE
    /\ isLive = "false"
    /\ checkInterval = "null"
    /\ timers = [minute |-> 0, hour |-> 0]
    /\ probeCron = FALSE

\* The continuations of updateClips
UpdSteps(U) ==
    \E u \in U :
        \/ \E ok \in TokenAnswers : UpdTokenResp(u, ok)
        \/ \E found \in BOOLEAN : UpdBidResp(u, found)
        \/ \E ids \in PageIds, more \in BOOLEAN : \E vc \in ViewCounts(ids) : UpdPageResp(u, ids, vc, more)
        \/ \E ok \in TokenAnswers : UpdRefreshResp(u, ok)
        \/ UpdNetErr(u)

UpdNext(U) ==
    \/ \E u \in U : CronFull(u)
    \/ UpdSteps(U)

\* The continuations of a checkRecentClips that found a token cached
ChkSteps(T) ==
    \E t \in T :
        \/ \E found \in BOOLEAN : ChkBidResp(t, found)
        \/ \E ids \in PageIds : \E vc \in ViewCounts(ids) : ChkListResp(t, ids, vc)
        \/ \E ok \in TokenAnswers : ChkRefreshResp(t, ok)
        \/ \E vc \in ViewCounts(chk[t].pending), delivered \in BOOLEAN : ChkNotifyDone(t, vc, delivered)
        \/ ChkNetErr(t)

ChkNext(T) ==
    \/ \E t \in T : CheckBegin(t)
    \/ \E t \in T, ok \in TokenAnswers : ChkTokenResp(t, ok)
    \/ ChkSteps(T)

SyncNext ==
    \/ \E id \in ClipIds : syncClipById(id)
    \/ \E ok \in TokenAnswers : SyncTokenResp(ok)
    \/ \E found \in BOOLEAN, v \in Views : SyncClipResp(found, v)
    \/ \E ok \in TokenAnswers : SyncRefreshResp(ok)
    \/ SyncNetErr

\* The synchronisation engine: one backfill, two incremental checks and a
\* resync, started at any time, in any interleaving.
Next ==
    \/ UpdNext({1})
    \/ ChkNext(Chk)
    \/ SyncNext
    \/ TokenExpires
    \/ Restart

Spec == Init /\ [][Next]_vars

\* Backfills alone: the one app.listen starts (it is given the first record)
\* and those the cron starts, two of them overlapping at most.
NextBackfill ==
    \/ Listen(1)
    \/ UpdNext(Upd)
    \/ TokenExpires
    \/ Restart

SpecBackfill == Init /\ [][NextBackfill]_vars

\* The backfills the full-update cron starts, two of them overlapping at most.
NextCron ==
    \/ UpdNext(Upd)
    \/ TokenExpires
    \/ Restart

SpecCron == Init /\ [][NextCron]_vars

\* The backfills alone where every pending network call of every updateClips
\* gets its answer (or its rejection): an awaited fetch does not stay pending
\* for ever.
FairCron == SpecCron /\ \A u \in Upd : WF_vars(UpdSteps({u}))

\* One incremental check against one backfill.
NextCheck ==
    \/ UpdNext({1})
    \/ ChkNext({1})
    \/ TokenExpires
    \/ Restart

SpecCheck == Init /\ [][NextCheck]_vars

\* The resync endpoint against one backfill.
NextResync ==
    \/ UpdNext({1})
    \/ SyncNext
    \/ TokenExpires
    \/ Restart

SpecResync == Init /\ [][NextResync]_vars

\* The id of a clip stored by an earlier run that the upstream no longer
\* returns
OldClip == NumClips + 1

\* Either revision at process start, on an empty table or on the table an
\* earlier run has left.
InitWriters ==
    /\ variant \in {"windowed", "simple"}
    /\ accessToken = "null"
    /\ isUpdatingFull = FALSE
    /\ clips \in {{}, {[id |-> OldClip, view_count |-> 1]}}
    /\ notified = [c \in ClipIds |-> 0]
    /\ started = FALSE
    /\ upd = [u \in Upd |-> IdleUpd]
    /\ chk = [t \in Chk |-> IdleChk]
    /\ sync = IdleSync
    /\ outcome = "none"
    /\ live = FALSE
    /\ isLive = "false"
    /\ checkInterval = "null"
    /\ timers = [minute |-> 0, hour |-> 0]
    /\ probeCron = FALSE

\* The three writers of the table together: one backfill, one incremental
\* check and the resync endpoint.
NextWriters ==
    \/ UpdNext({1})
    \/ ChkNext({1})
    \/ SyncNext
    \/ TokenExpires

SpecWriters == InitWriters /\ [][NextWriters]_vars

\* The process right after startAdaptiveChecking() was called at module load:
\* the first checkStatus() has read wasLive = false and waits for the token;
\* the table is the file left by earlier runs.
InitSched ==
    /\ variant \in {"windowed", "simple"}
    /\ accessToken = "null"
    /\ isUpdatingFull = FALSE
    /\ clips \in {{}, {[id |-> 1, view_count |-> 1]}}
    /\ notified = [c \in ClipIds |-> 0]
    /\ started = FALSE
    /\ upd = [u \in Upd |-> IdleUpd]
    /\ chk = [t \in Chk |-> IF t = 1 THEN [IdleChk EXCEPT !.pc = "ls_token", !.probe = TRUE]
                                     ELSE IdleChk]
    /\ sync = IdleSync
    /\ outcome = "none"
    /\ live \in BOOLEAN
    /\ isLive = "false"
    /\ checkInterval = "null"
    /\ timers = [minute |-> 0, hour |-> 0]
    /\ probeCron = FALSE

\* Adaptive checking: liveness probes, the timers they create and the
\* incremental checks the timers and the probes run.  A check runs after a
\* probe has cached a token, so it never asks for the first one.
NextSched ==
    \/ \E t \in Chk :
        \/ checkStatus(t)
        \/ \E ok \in TokenAnswers : LsTokenResp(t, ok)
        \/ \E found \in BOOLEAN : LsBidResp(t, found)
        \/ LsStreamsResp(t)
        \/ LsNetErr(t)
        \/ \E cadence \in {"minute", "hour"} : TimerFire(t, cadence)
    \/ ChkSteps(Chk)
    \/ TokenExpires
    \/ LiveChanges

SpecSched == InitSched /\ [][NextSched]_vars

\* The windowed revision on a table that stays empty: every incremental
\* check returns at its empty-table test.
InitTimers ==
    /\ InitSched
    /\ variant = "windowed"
    /\ clips = {}

\* The liveness probes, two of them overlapping at most, and the timers they
\* create.
NextTimers ==
    \/ \E t \in Chk :
        \/ checkStatus(t)
        \/ \E ok \in TokenAnswers : LsTokenResp(t, ok)
        \/ \E found \in BOOLEAN : LsBidResp(t, found)
        \/ LsStreamsResp(t)
        \/ LsNetErr(t)
        \/ \E cadence \in {"minute", "hour"} : TimerFire(t, cadence)
    \/ TokenExpires
    \/ LiveChanges

SpecTimers == InitTimers /\ [][NextTimers]_vars

\* Adaptive checking with one checkStatus or timer callback in progress at a
\* time.
NextProbe ==
    \/ checkStatus(1)
    \/ \E ok \in TokenAnswers : LsTokenResp(1, ok)
    \/ \E found \in BOOLEAN : LsBidResp(1, found)
    \/ LsStreamsResp(1)
    \/ LsNetErr(1)
    \/ \E cadence \in {"minute", "hour"} : TimerFire(1, cadence)
    \/ ChkSteps({1})
    \/ TokenExpires
    \/ LiveChanges

SpecProbe == InitSched /\ [][NextProbe]_vars

\* The windowed revision started on the table an earlier run has left: it
\* holds a row, and the clips the upstream returns now are not in it.
InitSeeded ==
    /\ variant = "windowed"
    /\ accessToken = "null"
    /\ isUpdatingFull = FALSE
    /\ clips = {[id |-> OldClip, view_count |-> 1]}
    /\ notified = [c \in ClipIds |-> 0]
    /\ started = FALSE
    /\ upd = [u \in Upd |-> IdleUpd]
    /\ chk = [t \in Chk |-> IdleChk]
    /\ sync = IdleSync
    /\ outcome = "none"
    /\ live = FALSE
    /\ isLive = "false"
    /\ checkInterval = "null"
    /\ timers = [minute |-> 0, hour |-> 0]
    /\ probeCron = FALSE

\* One incremental check against one backfill, on a table that has rows from
\* the start.
NextSeeded ==
    \/ UpdNext({1})
    \/ ChkNext({1})
    \/ TokenExpires

SpecSeeded == InitSeeded /\ [][NextSeeded]_vars

\* The same, where every pending network call of the backfill and of the
\* check gets its answer (or its rejection).
FairSeeded ==
    /\ SpecSeeded
    /\ WF_vars(UpdSteps({1}))
    /\ WF_vars(ChkSteps({1}))
    /\ WF_vars(\E ok \in TokenAnswers : ChkTokenResp(1, ok))

\* The scheduled runs when the network and the token provider work: the
\* full-update cron and the incremental-check timer fire, every request gets
\* an answer, every token exchange yields a token and the broadcaster is
\* known; the upstream may stop accepting a token it has issued.
NextScheduled ==
    \/ CronFull(1)
    \/ CheckBegin(1)
    \/ UpdTokenResp(1, TRUE)
    \/ UpdBidResp(1, TRUE)
    \/ \E ids \in PageIds, more \in BOOLEAN : \E vc \in ViewCounts(ids) : UpdPageResp(1, ids, vc, more)
    \/ UpdRefreshResp(1, TRUE)
    \/ ChkTokenResp(1, TRUE)
    \/ ChkBidResp(1, TRUE)
    \/ \E ids \in PageIds : \E vc \in ViewCounts(ids) : ChkListResp(1, ids, vc)
    \/ ChkRefreshResp(1, TRUE)
    \/ \E vc \in ViewCounts(chk[1].pending), delivered \in BOOLEAN : ChkNotifyDone(1, vc, delivered)
    \/ TokenExpires

\* The schedules keep firing and no awaited call stays pending for ever.
FairScheduled ==
    /\ InitWriters
    /\ [][NextScheduled]_vars
    /\ WF_vars(CronFull(1))
    /\ WF_vars(CheckBegin(1))
    /\ WF_vars(UpdTokenResp(1, TRUE) \/ UpdBidResp(1, TRUE) \/ UpdRefreshResp(1, TRUE))
    /\ WF_vars(\E ids \in PageIds, more \in BOOLEAN : \E vc \in ViewCounts(ids) : UpdPageResp(1, ids, vc, more))
    /\ WF_vars(ChkTokenResp(1, TRUE) \/ ChkBidResp(1, TRUE) \/ ChkRefreshResp(1, TRUE))
    /\ WF_vars(\E ids \in PageIds : \E vc \in ViewCounts(ids) : ChkListResp(1, ids, vc))
    /\ WF_vars(\E vc \in ViewCounts(chk[1].pending), delivered \in BOOLEAN : ChkNotifyDone(1, vc, delivered))

\* Process start on an empty table: startAdaptiveChecking() was called at
\* module load and its first checkStatus() waits for the token; the app.listen
\* callback has not run yet.
InitStartup ==
    /\ InitSched
    /\ clips = {}

\* What follows process start: the startup backfill, the liveness probes,
\* the timers they create and the incremental checks.
NextStartup ==
    \/ Listen(1)
    \/ UpdSteps({1})
    \/ NextProbe

SpecStartup == InitStartup /\ [][NextStartup]_vars

\* ------------------------------------------------------------- properties

AllUpdIdle == \A u \in Upd : upd[u].pc = "idle"
AllChkIdle == \A t \in Chk : chk[t].pc = "idle"

\* C1: over any interleaving of backfills, incremental checks and resyncs, in
\* either revision, sendClipToDiscord is invoked at most once for a clip id.
NotifiedAtMostOnce == \A c \in ClipIds : notified[c] <= 1

\* A check that has notified for a clip is handed the same id again, in the
\* rest of the response it is still going through.
NotifiedAtMostOnceWitness ==
    \E t \in Chk :
        /\ chk[t].pc = "notify"
        /\ \E i \in 1..Len(chk[t].pending) : notified[chk[t].pending[i]] = 1

\* C2: whenever no updateClips is in progress, isUpdatingFull is false,
\* whichever way the last backfill ended.
MutexReleased == AllUpdIdle => isUpdatingFull = FALSE

\* A backfill of the windowed revision has inserted clips and then failed on a
\* later request.
MutexReleasedWitness ==
    /\ variant = "windowed"
    /\ AllUpdIdle
    /\ outcome = "NetworkError"
    /\ clips # {}
    /\ isUpdatingFull = FALSE

\* C3: in the windowed revision a checkRecentClips that begins while
\* isUpdatingFull is true returns without an error, with no request pending,
\* and leaves the table and the notifications as they were.
SkipsDuringFullUpdate ==
    [][\A t \in Chk :
          (/\ variant = "windowed"
           /\ isUpdatingFull
           /\ CheckBegin(t) \/ ChkRefreshResp(t, TRUE))
          => (/\ chk'[t].pc = "idle"
              /\ outcome' = "ok"
              /\ clips' = clips
              /\ notified' = notified)]_vars

\* A check has returned "ok" while a backfill holds the mutex.  With a table
\* that has rows and no token cached yet, no operation other than a check
\* skipped for the mutex can have returned.
SkipsDuringFullUpdateWitness ==
    /\ variant = "windowed"
    /\ isUpdatingFull
    /\ clips # {}
    /\ accessToken = "null"
    /\ outcome = "ok"
    /\ AllChkIdle

\* C4: in the windowed revision a checkRecentClips that finds the table empty
\* returns without an error, with no request pending and no token asked for,
\* and leaves the table and the notifications as they were.
SkipsOnEmptyStore ==
    [][\A t \in Chk :
          (/\ variant = "windowed"
           /\ Count(clips) = 0
           /\ CheckBegin(t) \/ ChkRefreshResp(t, TRUE))
          => (/\ chk'[t].pc = "idle"
              /\ outcome' = "ok"
              /\ clips' = clips
              /\ notified' = notified
              /\ CheckBegin(t) => accessToken' = accessToken)]_vars

\* A check has returned "ok" on an empty table with no backfill running and no
\* token ever asked for.
SkipsOnEmptyStoreWitness ==
    /\ variant = "windowed"
    /\ clips = {}
    /\ accessToken = "null"
    /\ outcome = "ok"
    /\ ~isUpdatingFull
    /\ AllUpdIdle
    /\ AllChkIdle

\* C5: when a page request of updateClips made with a non-null cursor is
\* answered 401, the token is asked anew, nothing is inserted or counted, and
\* the next page request carries the same cursor: no page is skipped or
\* counted twice.
RetrySamePage ==
    /\ [](\A u \in Upd : upd[u].pc \in {"page", "refresh"} => upd[u].cursor = upd[u].pages)
    /\ [][\A u \in Upd :
            /\ (/\ upd[u].cursor # NullCursor
                /\ Unauthorized
                /\ UpdPageResp(u, <<>>, <<>>, FALSE))
               => (/\ upd'[u] = [upd[u] EXCEPT !.pc = "refresh"]
                   /\ clips' = clips)
            /\ (/\ upd[u].cursor # NullCursor
                /\ UpdRefreshResp(u, TRUE))
               => (/\ upd'[u] = [upd[u] EXCEPT !.pc = "page"]
                   /\ accessToken' = "valid"
                   /\ clips' = clips)]_vars

\* The request for a page after the first was answered 401 and the token is
\* being asked anew.
RetrySamePageWitness ==
    \E u \in Upd : upd[u].pc = "refresh" /\ upd[u].cursor # NullCursor

\* C6: syncClipById on an id the upstream has no clip for fails with "clip not
\* found" and leaves the table as it was.
ResyncNotFound ==
    [][(/\ ~Unauthorized
        /\ SyncClipResp(FALSE, 1))
       => (/\ outcome' = "ClipNotFound"
           /\ sync'.pc = "idle"
           /\ clips' = clips)]_vars

\* A resync has failed with "clip not found" on a table that holds rows.
ResyncNotFoundWitness ==
    /\ outcome = "ClipNotFound"
    /\ sync.pc = "idle"
    /\ clips # {}

\* At most one row per id
UniqueIds(tbl) == \A r1, r2 \in tbl : r1.id = r2.id => r1 = r2

\* C7: the table never holds two rows with one id, and of two insert-or-ignore
\* writes with the same id the second reports changes = 0 and leaves the one
\* row the first left.
OneRowPerId ==
    /\ UniqueIds(clips)
    /\ \A c, d \in Payload :
         c.id = d.id =>
           LET first == InsertOrIgnore(clips, c)
               second == InsertOrIgnore(first.clips, d) IN
           /\ second.changes = 0
           /\ second.clips = first.clips
           /\ Cardinality({r \in second.clips : r.id = c.id}) = 1

\* A check of the simple revision, which runs the insert for every clip of the
\* response, has inserted a clip and goes on to a clip with an id the table
\* holds.
OneRowPerIdWitness ==
    /\ variant = "simple"
    /\ \E t \in Chk :
         /\ chk[t].pc = "notify"
         /\ chk[t].pending # <<>>
         /\ Exists(clips, chk[t].pending[1])

\* C8: when the request syncClipById repeats after a token refresh is answered
\* 401 again, the operation fails with an error rather than refreshing again.
SecondUnauthorizedFails ==
    [][(/\ sync.retried
        /\ Unauthorized
        /\ SyncClipResp(FALSE, 1))
       => (/\ sync'.pc = "idle"
           /\ outcome' \notin {"ok", "none"})]_vars

\* C9: when the broadcaster lookup of updateClips is answered 401, the
\* operation does not end there: it goes on to refresh the token and retry.
LookupRetriesOn401 ==
    [][\A u \in Upd :
          (/\ Unauthorized
           /\ UpdBidResp(u, FALSE))
          => upd'[u].pc # "idle"]_vars

\* A liveness probe is between reading wasLive and writing the timer
ProbeInProgress == \E t \in Chk : chk[t].pc \in {"ls_token", "ls_bid", "ls_streams"}

\* C10: whenever no liveness probe is in progress, exactly one incremental-check
\* timer runs, every minute if isLive is true and every hour if it is false,
\* from process start on.  It is asked only of the states in which the last
\* operation to end returned without an error: a probe that failed is not
\* what the statement is about.
CadenceFollowsLiveness ==
    (~ProbeInProgress /\ outcome = "ok") =>
        /\ isLive = "true" => timers = [minute |-> 1, hour |-> 0]
        /\ isLive = "false" => timers = [minute |-> 0, hour |-> 1]

\* The awaits of isStreamerLive
LsPcs == {"ls_token", "ls_bid", "ls_streams"}

\* C11 (as stated): every checkStatus leaves isStreamerLive by calling
\* checkRecentClips, whether or not the liveness value changed: the check is
\* then suspended at its first await, or has returned at once at one of its
\* two guards.
ProbeAlwaysChecks ==
    [][\A t \in Chk :
          (chk[t].pc \in LsPcs /\ chk'[t].pc \notin LsPcs)
          => IF CheckEntry(accessToken) = "return"
             THEN chk'[t].pc = "idle" /\ outcome' = "ok"
             ELSE chk'[t].pc = CheckEntry(accessToken) /\ chk'[t].probe]_vars

\* C11 (amended): every checkStatus whose isStreamerLive returns calls
\* checkRecentClips once, whether or not the liveness value changed; one whose
\* isStreamerLive throws ends without calling it.
ProbeChecksIfAnswered ==
    [][\A t \in Chk :
          (chk[t].pc \in LsPcs /\ chk'[t].pc \notin LsPcs)
          => \/ chk'[t].pc = "idle" /\ outcome' \in {"AuthError", "NetworkError"}
             \/ IF CheckEntry(accessToken) = "return"
                THEN chk'[t].pc = "idle" /\ outcome' = "ok"
                ELSE chk'[t].pc = CheckEntry(accessToken) /\ chk'[t].probe]_vars

\* The check of a checkStatus is in progress and no liveness change was ever
\* seen (checkInterval is still null).
ProbeChecksIfAnsweredWitness ==
    /\ checkInterval = "null"
    /\ \E t \in Chk : chk[t].probe /\ chk[t].pc \in {"bid", "list", "refresh", "notify"}

\* C12: no updateClips started by the full-update timer or at process start
\* ends with an error that nothing catches.
FailuresCaught ==
    [][\A u \in Upd :
          (/\ upd[u].pc # "idle"
           /\ upd'[u].pc = "idle"
           /\ outcome' \notin {"ok", "none"})
          => Caught(upd[u].caller)]_vars

\* C13: when a delivery fails, checkRecentClips does not throw: every row of
\* the table stays as it is, the loop goes on to the remaining clips (to the
\* next delivery, or to a normal return), and no clip is ever handed to
\* sendClipToDiscord a second time.
DeliveryFailureContained ==
    /\ [](\A c \in ClipIds : notified[c] <= 1)
    /\ [][\A t \in Chk :
            (/\ chk[t].pc = "notify"
             /\ \E vc \in ViewCounts(chk[t].pending) : ChkNotifyDone(t, vc, FALSE))
            => /\ clips \subseteq clips'
               /\ \/ chk'[t].pc = "notify"
                  \/ chk'[t].pc = "idle" /\ outcome' = "ok"
               /\ \A c \in ClipIds : notified'[c] <= 1]_vars

\* A check has returned normally after a delivery of its failed; the row it
\* inserted is in the table and was notified once.
DeliveryFailureContainedWitness ==
    \E t \in Chk :
        /\ chk[t].pc = "idle"
        /\ chk[t].failed
        /\ outcome = "ok"
        /\ \E r \in clips : notified[r.id] = 1

\* C14: when backfills are all that runs, sendClipToDiscord is never invoked:
\* no step of updateClips notifies, for any clip it inserts, on any page and
\* on any path.
BackfillNeverNotifies == \A c \in ClipIds : notified[c] = 0

\* A backfill has returned and left in the table a row that was never handed
\* to sendClipToDiscord.
BackfillNeverNotifiesWitness ==
    /\ AllUpdIdle
    /\ outcome = "ok"
    /\ \E r \in clips : notified[r.id] = 0

\* The clip listing of a checkRecentClips was requested, or its answer is
\* being gone through
CheckAtWork == \E t \in Chk : chk[t].pc \in {"list", "refresh", "notify"}

\* C15: from process start on an empty table, while the updateClips the
\* app.listen callback called is in progress, no incremental check lists
\* clips upstream, inserts or notifies.
SeededBeforeChecks ==
    (\E u \in Upd : upd[u].caller = "listen") => ~CheckAtWork

\* C16: a caller of getBroadcasterId that gets no id fails with "broadcaster
\* not found" before it issues another request; here the caller is
\* isStreamerLive.
EmptyLookupFails ==
    [][\A t \in Chk :
          (chk[t].pc = "ls_bid" /\ LsBidResp(t, FALSE))
          => (chk'[t].pc = "idle" /\ outcome' = "BroadcasterNotFound")]_vars

\* C17: in the windowed revision no step of a checkRecentClips inserts a row
\* or calls sendClipToDiscord while an updateClips is in progress, also when
\* the backfill began after the check had passed its mutex test.
NoCheckWorkDuringBackfill ==
    [][(/\ variant = "windowed"
        /\ ~AllUpdIdle
        /\ chk' # chk)
       => (clips' = clips /\ notified' = notified)]_vars

\* C18: at most one updateClips is in progress at any time, counting the run
\* begun by the listen callback and the runs begun by the full-update cron.
OneBackfillAtATime ==
    Cardinality({u \in Upd : upd[u].pc # "idle"}) <= 1

\* C19: updateClips returns normally only in the step that processes a page
\* carrying no continuation cursor; a 401 answer to a page request, the first
\* one included, never ends the pagination loop.
ReturnsAfterLastPage ==
    [][\A u \in Upd :
        (/\ upd[u].pc # "idle"
         /\ upd'[u].pc = "idle"
         /\ outcome' = "ok")
        => (upd[u].pc = "page" /\ ~Unauthorized)]_vars

\* C20: when every network call returns, every updateClips that was started
\* ends, normally or with an error, and isUpdatingFull becomes false again,
\* whatever the upstream answers (401 or not) to the page requests.
BackfillEnds ==
    /\ \A u \in Upd : (upd[u].pc # "idle") ~> (upd[u].pc = "idle")
    /\ isUpdatingFull ~> ~isUpdatingFull

\* C21: in the revision that has the mutex, isUpdatingFull is true in every
\* state in which an updateClips is in progress, also when several overlap and
\* one of them has ended.
MutexHeldDuringBackfill ==
    (variant = "windowed" /\ ~AllUpdIdle) => isUpdatingFull

\* C22: sendClipToDiscord is invoked for a clip only in the step of a
\* checkRecentClips whose insert wrote the clip's row for the first time: the
\* row was absent before the step and is there after it.  A row that exists is
\* never removed, so a clip whose row a backfill, a resync or an earlier check
\* wrote is never notified.
NotifiedOnlyOnFirstInsert ==
    [][/\ \A r \in clips : Exists(clips', r.id)
       /\ \A c \in ClipIds :
            notified'[c] # notified[c]
            => (/\ notified'[c] = notified[c] + 1
                /\ ~Exists(clips, c)
                /\ Exists(clips', c)
                /\ \E t \in Chk : /\ chk[t].pc \in {"list", "notify"}
                                  /\ chk'[t].pc = "notify"
                                  /\ upd' = upd
                                  /\ sync' = sync)]_vars

\* A check of the windowed revision has written the first row of a clip and
\* waits for its delivery, while a resync of the same clip waits for its
\* answer.
NotifiedOnlyOnFirstInsertWitness ==
    /\ variant = "windowed"
    /\ \E t \in Chk : chk[t].pc = "notify"
    /\ sync.pc = "clip"
    /\ notified[sync.id] = 1
    /\ Exists(clips, sync.id)

\* C23: a stored row is changed by no step of updateClips or of
\* checkRecentClips; the one step that changes a row is the resync of its
\* id, which replaces the row by the payload it has fetched.
RowsKeptExceptResync ==
    [][/\ \A r \in clips :
            r \notin clips'
            => (/\ sync.pc = "clip"
                /\ sync.id = r.id
                /\ sync'.pc = "idle"
                /\ outcome' = "ok"
                /\ upd' = upd
                /\ chk' = chk)
       /\ \A v \in Views :
            (~Unauthorized /\ SyncClipResp(TRUE, v))
            => clips' = {r \in clips : r.id # sync.id}
                            \cup {[id |-> sync.id, view_count |-> v]}]_vars

\* A check that has stored a clip is about to be handed the clip's id again
\* while a resync of that id waits for its answer.
RowsKeptExceptResyncWitness ==
    \E t \in Chk :
        /\ chk[t].pc = "notify"
        /\ sync.pc = "clip"
        /\ Exists(clips, sync.id)
        /\ \E i \in 1..Len(chk[t].pending) : chk[t].pending[i] = sync.id

StaleTokenReplaced == (accessToken = "stale") ~> (accessToken = "valid")

\* C26: at most one incremental-check timer is running at any time, and it is
\* the one checkInterval refers to: a probe that creates a timer has stopped
\* the one created before, also when probes overlap.
OneCheckTimer ==
    /\ timers.minute + timers.hour <= 1
    /\ checkInterval = "null" => timers.minute + timers.hour = 0
    /\ checkInterval # "null" => timers[checkInterval] = 1

\* A probe that read wasLive = false still waits for its streams answer while
\* another probe has found the broadcaster live and created the minute timer.
OneCheckTimerWitness ==
    /\ checkInterval = "minute"
    /\ timers.minute = 1
    /\ isLive = "true"
    /\ \E t \in Chk : chk[t].pc = "ls_streams" /\ chk[t].wasLive = "false"

====
